---------------------------- MODULE Spec2Model ----------------------------
(***************************************************************************)
(* N-body solar-system simulator: the two drivers of the repository,       *)
(*   "main"    = src/solar system/main.py + physics.py (PyQt timer),       *)
(*   "vpython" = src/solar system/solar_system.py (VPython main loop),     *)
(* and the Kepler element-to-state conversions of both files.              *)
(*                                                                         *)
(* Specifications, told apart by prog: Spec (the two drivers), SpecKepler  *)
(* (the conversions), SpecField (the accelerations and the energy as       *)
(* functions of any bodies), SpecOrbit (one orbital period of the Sun and  *)
(* an Earth-like planet, on fixed-point numbers), and SpecJobs             *)
(* (Solution.jobSequencing of src/dsa/Greedy Algorithms), SpecLock and     *)
(* SpecDedup (the lock-rotation and remove-duplicate-letters scripts of    *)
(* the same directory, run on any input in place of their literal one).    *)
(*                                                                         *)
(* Abstractions.  Vectors are reduced to one component.  A float is an     *)
(* integer of -FMAX..FMAX, or +inf, -inf or NaN; the arithmetic overflows  *)
(* to +-inf and produces NaN as IEEE-754 does (inf-inf, 0*inf, inf/inf),   *)
(* and rounds toward zero.  Lengths, masses and G are in model units, the  *)
(* time unit is half an integrator step, so dt = 2.                        *)
(* Module-level names are taken as bound: renderer.py:19 reads AU and      *)
(* main.py:96 reads Matrix44 without importing them; the handlers are      *)
(* modelled as written otherwise.                                          *)
(***************************************************************************)
EXTENDS Integers, Sequences, FiniteSets, TLC

\* ------------------------------------------------------------------ bounds
\* number of bodies (main.py has 5, solar_system.py has 9)
NBodies == 2
\* largest finite float of the model
FMAX == 1000
\* frames (timer ticks / loop iterations) of one run
MaxFrames == 2
\* largest value the main.py time-scale slider is moved to (its range is 1..100)
MaxSlider == 2
\* job sequencing: jobs of a call, and the largest deadline
MaxJobs == 3
MaxDeadline == 3
\* remove duplicate letters: the longest input string
MaxLen == 4
\* lock rotations: the largest lock code
MaxCode == 99
\* two-body orbit: integration steps of one orbital period (365.25 days of dt)
OrbitSteps == 365

\* --------------------------------------------------------- program constants
\* gravitational constant, model units
G == 8
\* masses of the Sun and of a planet, model units
MSun == 4
MPlanet == 2
\* softening length, model units
SOFTENING == 1
\* integrator step (SimState.dt, dt_default), model time units
dt == 2
\* solar_system.py: loop iterations per second
visual_fps == 60
\* solar_system.py: most steps of one frame
StepCap == 50
\* solar_system.py: dt_default in seconds, 60*60*4
dt_seconds == 14400
\* main.py: SimState.dt in seconds, and the timer interval in milliseconds
sim_dt_seconds == 3600
timer_ms == 16
\* solar_system.py: time-scale slider range and start value, in hundredths
TsMin == 1
TsMax == 20000
TsStart == 100

Bodies == 1..NBodies

\* ------------------------------------------------------------ float model
PInf == FMAX + 1
NInf == -(FMAX + 1)
NaN == FMAX + 2

IsFinite(x) == x \in -FMAX..FMAX
IsInf(x) == x = PInf \/ x = NInf

Sign(x) == IF x < 0 THEN -1 ELSE IF x > 0 THEN 1 ELSE 0
Min(a, b) == IF a < b THEN a ELSE b
Max(a, b) == IF a > b THEN a ELSE b

\* quotient rounded toward zero, b > 0
TDiv(a, b) == IF a >= 0 THEN a \div b ELSE -((-a) \div b)

\* the float nearest the exact result x
Fl(x) == IF x > FMAX THEN PInf ELSE IF x < -FMAX THEN NInf ELSE x

FNeg(a) == IF a = NaN THEN NaN ELSE -a

FAdd(a, b) ==
    IF a = NaN \/ b = NaN THEN NaN
    ELSE IF IsInf(a) THEN (IF IsInf(b) /\ b # a THEN NaN ELSE a)
    ELSE IF IsInf(b) THEN b
    ELSE Fl(a + b)

FSub(a, b) == FAdd(a, FNeg(b))

FMul(a, b) ==
    IF a = NaN \/ b = NaN THEN NaN
    ELSE IF IsInf(a) \/ IsInf(b)
         THEN (IF a = 0 \/ b = 0 THEN NaN
               ELSE IF Sign(a) * Sign(b) > 0 THEN PInf ELSE NInf)
    ELSE Fl(a * b)

\* a / b for b > 0 or b = +inf or NaN
FDiv(a, b) ==
    IF a = NaN \/ b = NaN THEN NaN
    ELSE IF IsInf(b) THEN (IF IsInf(a) THEN NaN ELSE 0)
    ELSE IF IsInf(a) THEN a
    ELSE Fl(TDiv(a, b))

\* a * num / den for the positive constants num, den
FScale(a, num, den) == IF IsFinite(a) THEN Fl(TDiv(a * num, den)) ELSE a

ISqrt(x) == CHOOSE s \in 0..x : s * s <= x /\ (s + 1) * (s + 1) > x

FSqrt(a) == IF IsFinite(a) /\ a >= 0 THEN ISqrt(a) ELSE IF a = PInf THEN PInf ELSE NaN

AllFinite(f) == \A i \in DOMAIN f : IsFinite(f[i])

\* ---------------------------------------------------------------- physics
\* the displacement taken as positions[j], not positions[j] - positions[i]
PairAcc_fromorigin(ri, rj, mj) ==
    LET rij       == rj
        dist2     == FAdd(FMul(rij, rij), SOFTENING * SOFTENING)
        dist3     == FMul(dist2, FSqrt(dist2))
    IN  FDiv(FMul(G * mj, rij), dist3)

\* the contribution of body j (at rj, mass mj) to the acceleration of a body at ri
PairAcc(ri, rj, mj) ==
    LET rij       == FSub(rj, ri)
        dist2     == FAdd(FMul(rij, rij), SOFTENING * SOFTENING)
        dist3     == FMul(dist2, FSqrt(dist2))
    IN  FDiv(FMul(G * mj, rij), dist3)

RECURSIVE SumAcc(_, _, _, _)
SumAcc(rr, mm, i, j) ==
    IF j > NBodies THEN 0
    ELSE IF j = i THEN SumAcc(rr, mm, i, j + 1)
    ELSE FAdd(PairAcc(rr[i], rr[j], mm[j]), SumAcc(rr, mm, i, j + 1))

\* solar_system.py compute_accelerations(bodies)
compute_accelerations(rr, mm) == [i \in Bodies |-> SumAcc(rr, mm, i, 1)]

\* x ** 1.5 for x >= 0, rounded once: the float nearest the root of the cube
Pow15(x) ==
    IF IsFinite(x) /\ x >= 0
    THEN (IF x * x * x >= (FMAX + 1) * (FMAX + 1) THEN PInf
          ELSE CHOOSE s \in 0..FMAX : s * s <= x * x * x /\ (s + 1) * (s + 1) > x * x * x)
    ELSE IF x = PInf THEN PInf ELSE NaN

\* physics.py: r = positions[j] - positions[i];
\* dist3 = (np.linalg.norm(r)**2 + softening**2) ** (1.5); G * masses[j] * r / dist3
phys_PairAcc(ri, rj, mj) ==
    LET rvec  == FSub(rj, ri)
        norm  == FSqrt(FMul(rvec, rvec))
        dist3 == Pow15(FAdd(FMul(norm, norm), SOFTENING * SOFTENING))
    IN  FDiv(FMul(G * mj, rvec), dist3)

RECURSIVE phys_SumAcc(_, _, _, _)
phys_SumAcc(rr, mm, i, j) ==
    IF j > NBodies THEN 0
    ELSE IF j = i THEN phys_SumAcc(rr, mm, i, j + 1)
    ELSE FAdd(phys_PairAcc(rr[i], rr[j], mm[j]), phys_SumAcc(rr, mm, i, j + 1))

\* physics.py compute_accelerations(bodies, softening)
phys_compute_accelerations(rr, mm) == [i \in Bodies |-> phys_SumAcc(rr, mm, i, 1)]

\* ----------------------------------------------------------------- energy
\* |a| of a float
FAbs(a) == IF a = NaN THEN NaN ELSE IF a < 0 THEN -a ELSE a

\* the `+ 1e-12` of total_energy, below the resolution of the model
EnergyEps == 0

\* physics.py system_energy: G m_i m_j / sqrt(|r_j - r_i|^2 + softening^2)
phys_pair_potential(ri, rj, mi, mj) ==
    LET rij  == FSub(rj, ri)
        dist == FSqrt(FAdd(FMul(rij, rij), SOFTENING * SOFTENING))
    IN  FDiv(G * mi * mj, dist)

\* solar_system.py total_energy: G m_i m_j / (|r_i - r_j| + 1e-12); for bodies
\* at one place the quotient is beyond the model's finite range
pair_potential(ri, rj, mi, mj) ==
    LET dist == FAdd(FAbs(FSub(ri, rj)), EnergyEps)
    IN  IF dist = 0 THEN PInf ELSE FDiv(G * mi * mj, dist)

\* the pairs <<i, j>> in the order the loops
\* `for i in range(N): for j in range(i + 1, N)` of both energy functions visit them
RECURSIVE energy_pairs(_, _)
energy_pairs(i, j) ==
    IF i > NBodies THEN << >>
    ELSE IF j > NBodies THEN energy_pairs(i + 1, i + 2)
    ELSE <<(<<i, j>>)>> \o energy_pairs(i, j + 1)

\* potential -= term, over the pairs ps from the k-th on
RECURSIVE phys_potential(_, _, _, _, _)
phys_potential(rr, mm, ps, k, acc) ==
    IF k > Len(ps) THEN acc
    ELSE phys_potential(rr, mm, ps, k + 1,
             FSub(acc, phys_pair_potential(rr[ps[k][1]], rr[ps[k][2]],
                                           mm[ps[k][1]], mm[ps[k][2]])))

RECURSIVE potential(_, _, _, _, _)
potential(rr, mm, ps, k, acc) ==
    IF k > Len(ps) THEN acc
    ELSE potential(rr, mm, ps, k + 1,
             FSub(acc, pair_potential(rr[ps[k][1]], rr[ps[k][2]],
                                      mm[ps[k][1]], mm[ps[k][2]])))

\* sum of m_i v_i^2 over the bodies from i on
RECURSIVE SumMV2(_, _, _)
SumMV2(mm, vv, i) ==
    IF i > NBodies THEN 0
    ELSE FAdd(FMul(mm[i], FMul(vv[i], vv[i])), SumMV2(mm, vv, i + 1))

\* sum of 0.5 m_i v_i^2 over the bodies from i on
RECURSIVE SumHalfMV2(_, _, _)
SumHalfMV2(mm, vv, i) ==
    IF i > NBodies THEN 0
    ELSE FAdd(FScale(FMul(mm[i], FMul(vv[i], vv[i])), 1, 2), SumHalfMV2(mm, vv, i + 1))

\* physics.py system_energy(bodies): kinetic, potential, total
system_energy(rr, vv, mm) ==
    LET K == FScale(SumMV2(mm, vv, 1), 1, 2)
        U == phys_potential(rr, mm, energy_pairs(1, 2), 1, 0)
    IN  [K |-> K, U |-> U, E |-> FAdd(K, U)]

\* solar_system.py total_energy(bodies): K + U
total_energy(rr, vv, mm) ==
    LET K == SumHalfMV2(mm, vv, 1)
        U == potential(rr, mm, energy_pairs(1, 2), 1, 0)
    IN  [K |-> K, U |-> U, E |-> FAdd(K, U)]

\* ------------------------------------------------- fixed-point numbers
\* The orbit of the Sun and an Earth-like planet is integrated in two
\* dimensions on fixed-point numbers of 28 binary places, x standing for
\* x / XF, in the units 1 AU, 1 Earth mass and the time in which G*MSun = 1
\* AU^3 (a year / 2 pi); every value stays below 2 in magnitude.
XF == 268435456
\* the limb of a product: XF = XB * XB
XB == 16384

\* a * b rounded to 28 places, by limbs so that no intermediate product
\* exceeds 31 bits
XMul(a, b) ==
    LET a1 == a \div XB
        a0 == a % XB
        b1 == b \div XB
        b0 == b % XB
    IN  a1 * b1 + ((a1 * b0 + a0 * b1 + (a0 * b0) \div XB + XB \div 2) \div XB)

\* 1 / sqrt(x) for x near 1, by n Newton steps z (3/2 - x z^2 / 2) from z
RECURSIVE XRsqrtFrom(_, _, _)
XRsqrtFrom(x, z, n) ==
    IF n = 0 THEN z
    ELSE XRsqrtFrom(x, XMul(z, (3 * XF) \div 2 - XMul(x \div 2, XMul(z, z))), n - 1)

\* the test system: e = 0.0167, a = 1 AU, the planet at perihelion; dt = 86400 s;
\* softening 1e7 m, squared; G * masses[j]; the masses in Earth masses
OrbitTest ==
    [dt    |-> 4617723,
     soft2 |-> 1,
     mu    |-> <<XF, 806>>,
     mass  |-> <<332954, 1>>,
     r0    |-> 263952584,
     v0    |-> 272956393]

\* the bodies as constructed: the Sun at rest at the origin, the planet at
\* perihelion on the x axis moving along y
OrbitStart ==
    [r |-> <<<<0, 0>>, <<OrbitTest.r0, 0>>>>,
     v |-> <<<<0, 0>>, <<0, OrbitTest.v0>>>>,
     k |-> 0]

\* physics.py compute_accelerations on the two bodies at positions R
orb_acc(R) ==
    [i \in 1..2 |->
        LET j     == 3 - i
            rx    == R[j][1] - R[i][1]
            ry    == R[j][2] - R[i][2]
            dist2 == XMul(rx, rx) + XMul(ry, ry) + OrbitTest.soft2
            z     == XRsqrtFrom(dist2, XF, 5)
            inv3  == XMul(z, XMul(z, z))
        IN  <<XMul(XMul(OrbitTest.mu[j], rx), inv3), XMul(XMul(OrbitTest.mu[j], ry), inv3)>>]

\* an explicit Euler step: positions from v(t), velocities from a(t)
orb_step_euler(s) ==
    LET acc == orb_acc(s.r)
    IN  [r |-> [i \in 1..2 |-> [c \in 1..2 |-> s.r[i][c] + XMul(s.v[i][c], OrbitTest.dt)]],
         v |-> [i \in 1..2 |-> [c \in 1..2 |-> s.v[i][c] + XMul(acc[i][c], OrbitTest.dt)]],
         k |-> s.k + 1]

\* physics.py velocity_verlet_step(bodies, dt)
orb_step(s) ==
    LET acc      == orb_acc(s.r)
        dt2      == XMul(OrbitTest.dt, OrbitTest.dt)
        next_pos == [i \in 1..2 |-> [c \in 1..2 |->
                        s.r[i][c] + XMul(s.v[i][c], OrbitTest.dt) + XMul(acc[i][c] \div 2, dt2)]]
        acc_next == orb_acc(next_pos)
    IN  [r |-> next_pos,
         v |-> [i \in 1..2 |-> [c \in 1..2 |->
                    s.v[i][c] + XMul((acc[i][c] + acc_next[i][c]) \div 2, OrbitTest.dt)]],
         k |-> s.k + 1]

\* physics.py system_energy(bodies): the total, in Earth masses AU^2 per time^2
orb_energy(s) ==
    LET mv2(i)    == XMul(OrbitTest.mass[i] * s.v[i][1], s.v[i][1])
                     + XMul(OrbitTest.mass[i] * s.v[i][2], s.v[i][2])
        kin       == (mv2(1) + mv2(2)) \div 2
        rx        == s.r[2][1] - s.r[1][1]
        ry        == s.r[2][2] - s.r[1][2]
        dist2     == XMul(rx, rx) + XMul(ry, ry) + OrbitTest.soft2
        pot       == -XMul(OrbitTest.mu[1] * OrbitTest.mass[2], XRsqrtFrom(dist2, XF, 5))
    IN  kin + pot

\* ------------------------------------------------------------------ state
VARIABLES
    prog,             \* which script runs: "main", "vpython"; "kepler": a conversion call;
                      \* "field", "orbit", "jobs": a call of the functions named there;
                      \* "lock", "dedup": a script of src/dsa
    kep,              \* the running element-to-state conversion (see below)
    job,              \* the running call of Solution.jobSequencing (see below)
    orb,              \* the two-body orbit being integrated (see below)
    lock,             \* the run of the lock-rotation script (see below)
    dedup,            \* the run of the remove-duplicate-letters script (see below)
    pc,               \* where the script is
    m, r, v,          \* the bodies: mass, position, velocity
    accs,             \* solar_system.py accs (global) / physics.py acc (local)
    new_accs,         \* solar_system.py new_accs / physics.py acc_next
    positions, velocities,              \* physics.py locals of velocity_verlet_step
    next_positions, next_velocities,    \* physics.py locals of velocity_verlet_step
    idx,              \* index of the running `for ... in enumerate(bodies)` loop
    nsteps, left,     \* steps of this frame, and those still to run
    paused,           \* main.py SimState.paused
    timescale,        \* main.py SimState.timescale
    running,          \* solar_system.py running
    time_scale,       \* solar_system.py time_scale, in hundredths
    focus_idx,        \* focus index of either script (0-based)
    sim_dt,           \* main.py SimState.dt, solar_system.py dt: the step the integrator is given
    diag,             \* what the energy diagnostics last read
    drawn,            \* what the renderer last read
    trail,            \* what the renderer keeps: body.trail (renderer.py), the spheres (solar_system.py)
    frame,            \* history: frames begun
    steps0,           \* history: integration steps completed when the frame began
    steps,            \* history: integration steps completed
    hist,             \* history: the body state after construction and after each step
    diverged          \* history: a completed step wrote a non-finite component

physVars == <<m, r, v>>
stepVars == <<accs, new_accs, positions, velocities, next_positions, next_velocities, idx>>
uiVars == <<paused, timescale, running, time_scale, focus_idx, sim_dt>>
obsVars == <<diag, drawn>>
histVars == <<steps, hist, diverged>>
frameVars == <<frame, steps0>>
vars == <<prog, kep, job, orb, lock, dedup, trail, pc, m, r, v, accs, new_accs, positions, velocities, next_positions,
          next_velocities, idx, nsteps, left, paused, timescale, running, time_scale,
          focus_idx, sim_dt, diag, drawn, frame, steps0, steps, hist, diverged>>

Zero == [i \in Bodies |-> 0]
Snapshot(rr, vv) == [r |-> rr, v |-> vv]
NoEnergy == [K |-> 0, U |-> 0, E |-> 0]
NoRead == [r |-> Zero, v |-> Zero, k |-> -1, e |-> NoEnergy]

\* a value the renderer keeps of the positions rr read after k steps: a copy
\* (body.position.copy(), vector(*(self.r * scale))), so no entry is the array
\* a body's position is bound to
Kept(rr, k) == [r |-> rr, k |-> k, alias |-> [i \in Bodies |-> FALSE]]

\* renderer.py trail_len, solar_system.py retain: the entries kept at most
trail_len == 500
retain == 600

\* tr with entry e appended, cut to its last n entries
KeepLast(tr, e, n) ==
    LET t == Append(tr, e)
    IN  IF Len(t) > n THEN SubSeq(t, Len(t) - n + 1, Len(t)) ELSE t

\* `b.position = ...` and `b.r = ...` bind the attribute of body i to a new array:
\* an entry that was the old array is no longer the body's position
Rebound(tr, i) ==
    [k \in DOMAIN tr |-> [tr[k] EXCEPT !.alias = [@ EXCEPT ![i] = FALSE]]]

\* what a kept entry shows now: the body's position where it is the live array
Shown(e) == [i \in Bodies |-> IF e.alias[i] THEN r[i] ELSE e.r[i]]

\* initial positions and velocities of the planets (model units); the last
\* velocity is an extreme one, the others are ordinary
PosInit == {2, 3}
VelInit == {0, 2, FMAX}

\* the bodies as constructed: main.py _init_bodies (32-51), solar_system.py 219-228
InitBodies ==
    /\ m = [i \in Bodies |-> IF i = 1 THEN MSun ELSE MPlanet]
    /\ r \in {f \in [Bodies -> PosInit \cup {0}] :
              /\ f[1] = 0
              /\ \A i \in Bodies \ {1} : f[i] # 0
              /\ \A i, j \in Bodies : i # j => f[i] # f[j]}
    /\ v \in {f \in [Bodies -> VelInit] : f[1] = 0}

\* a script of src/dsa that is not running
ScriptIdle == [pc |-> "none"]

\* no call of jobSequencing is running
JobIdle == [pc |-> "none", deadline |-> << >>, profit |-> << >>, jobs |-> << >>,
            parent |-> << >>, i |-> 0, count |-> 0, total_profit |-> 0,
            sched |-> << >>, out |-> << >>]

\* no conversion is running
KepIdle == [fn |-> "none", pc |-> "done", a |-> 1, e |-> 0, mu |-> 1, M |-> 0, E |-> 0,
            nan |-> FALSE, iter |-> 0,
            out |-> [kind |-> "none", E |-> 0, finite |-> TRUE]]

InitCommon ==
    /\ InitBodies
    /\ kep = KepIdle /\ job = JobIdle /\ orb = OrbitStart
    /\ lock = ScriptIdle /\ dedup = ScriptIdle
    /\ accs = Zero /\ new_accs = Zero
    /\ positions = Zero /\ velocities = Zero
    /\ next_positions = Zero /\ next_velocities = Zero
    /\ idx = 0 /\ nsteps = 0 /\ left = 0
    /\ paused = FALSE /\ timescale = 1
    /\ running = TRUE /\ time_scale = TsStart
    /\ focus_idx = 0 /\ sim_dt = dt
    /\ diag = NoRead
    /\ frame = 0 /\ steps0 = 0 /\ steps = 0
    /\ hist = <<Snapshot(r, v)>>
    /\ diverged = FALSE

\* main.py MainWindow.__init__ (19-30): bodies built, timer started
InitMain ==
    /\ prog = "main" /\ pc = "idle"
    /\ InitCommon
    /\ drawn = [r |-> Zero, k |-> -1]
    /\ trail = << >>

\* solar_system.py after the bodies are built (219-228); Body.__init__ sets each
\* sphere's position from r (206-211)
InitVPython ==
    /\ prog = "vpython" /\ pc = "shift"
    /\ InitCommon
    /\ drawn = [r |-> r, k |-> 0]
    /\ trail = <<Kept(r, 0)>>

Init == InitMain \/ InitVPython

\* ------------------------------------------------------- the step's end
\* bookkeeping of a completed step: the loop `for _ in range(nsteps)` goes on or ends
StepDone(vnew, again, after) ==
    /\ steps' = steps + 1
    /\ hist' = Append(hist, Snapshot(r, vnew))
    /\ diverged' = (diverged \/ ~(AllFinite(r) /\ AllFinite(vnew)))
    /\ left' = left - 1
    /\ pc' = IF left - 1 > 0 THEN again ELSE after

\* ------------------------------------------------------- main.py handlers
\* MainWindow._on_pause
OnPause ==
    /\ prog = "main" /\ pc = "idle"
    /\ paused' = ~paused
    /\ UNCHANGED <<prog, kep, job, orb, lock, dedup, trail, pc, sim_dt, physVars, stepVars, nsteps, left, timescale, running,
                   time_scale, focus_idx, obsVars, frameVars, histVars>>

\* the slider scaling the integrator's step instead of the steps per frame
OnTimescale_scalesdt ==
    /\ prog = "main" /\ pc = "idle"
    /\ \E val \in 1..MaxSlider : timescale' = val /\ sim_dt' = dt * val
    /\ UNCHANGED <<prog, kep, job, orb, lock, dedup, trail, pc, physVars, stepVars, nsteps, left, paused, running,
                   time_scale, focus_idx, obsVars, frameVars, histVars>>

\* MainWindow._on_timescale(val), val a position of the slider
OnTimescale ==
    /\ prog = "main" /\ pc = "idle"
    /\ \E val \in 1..MaxSlider : timescale' = val
    /\ UNCHANGED <<prog, kep, job, orb, lock, dedup, trail, pc, sim_dt, physVars, stepVars, nsteps, left, paused, running,
                   time_scale, focus_idx, obsVars, frameVars, histVars>>

\* MainWindow._on_focus(idx), idx an entry of the combo box
OnFocus ==
    /\ prog = "main" /\ pc = "idle"
    /\ \E i \in 0..(NBodies - 1) : focus_idx' = i
    /\ UNCHANGED <<prog, kep, job, orb, lock, dedup, trail, pc, sim_dt, physVars, stepVars, nsteps, left, paused, timescale,
                   running, time_scale, obsVars, frameVars, histVars>>

\* one step too many: range(int(self.sim.timescale) + 1)
timer_nsteps_plus1(ts) == ts + 1

\* range(int(self.sim.timescale)) of _on_timer
timer_nsteps(ts) == ts

\* the timer stepping the physics whether paused or not
OnTimer_ignorePause ==
    /\ prog = "main" /\ pc = "idle"
    /\ frame < MaxFrames
    /\ frame' = frame + 1
    /\ steps0' = steps
    /\ nsteps' = timer_nsteps(timescale)
    /\ left' = nsteps'
    /\ pc' = IF nsteps' > 0 THEN "vv_begin" ELSE "diag"
    /\ UNCHANGED <<prog, kep, job, orb, lock, dedup, trail, physVars, stepVars, uiVars, obsVars, histVars>>

\* MainWindow._on_timer, entry: the pause test and the range of the step loop
OnTimer ==
    /\ prog = "main" /\ pc = "idle"
    /\ frame < MaxFrames
    /\ frame' = frame + 1
    /\ steps0' = steps
    /\ nsteps' = IF paused THEN 0 ELSE timer_nsteps(timescale)
    /\ left' = nsteps'
    /\ pc' = IF nsteps' > 0 THEN "vv_begin" ELSE "diag"
    /\ UNCHANGED <<prog, kep, job, orb, lock, dedup, trail, physVars, stepVars, uiVars, obsVars, histVars>>

\* physics.py velocity_verlet_step: copies of the state, a(t), the new positions
PhysBegin ==
    /\ prog = "main" /\ pc = "vv_begin"
    /\ positions' = r
    /\ velocities' = v
    /\ accs' = phys_compute_accelerations(r, m)
    /\ next_positions' = [i \in Bodies |->
            FAdd(FAdd(r[i], FScale(v[i], sim_dt, 1)), FScale(accs'[i], sim_dt * sim_dt, 2))]
    /\ idx' = 1
    /\ pc' = "vv_pos"
    /\ UNCHANGED <<prog, kep, job, orb, lock, dedup, trail, physVars, new_accs, next_velocities, nsteps, left, uiVars,
                   obsVars, frameVars, histVars>>

\* the energy diagnostics called from inside the step, after a position write
PhysWritePosition_observed ==
    /\ prog = "main" /\ pc = "vv_pos"
    /\ r' = [r EXCEPT ![idx] = next_positions[idx]]
    /\ diag' = [r |-> r', v |-> v, k |-> steps, e |-> system_energy(r', v, m)]
    /\ trail' = Rebound(trail, idx)
    /\ idx' = IF idx < NBodies THEN idx + 1 ELSE 0
    /\ pc' = IF idx < NBodies THEN "vv_pos" ELSE "vv_accnext"
    /\ UNCHANGED <<prog, kep, job, orb, lock, dedup, m, v, accs, new_accs, positions, velocities, next_positions,
                   next_velocities, nsteps, left, uiVars, drawn, frameVars, histVars>>

\* physics.py velocity_verlet_step: b.position = next_positions[idx]
PhysWritePosition ==
    /\ prog = "main" /\ pc = "vv_pos"
    /\ r' = [r EXCEPT ![idx] = next_positions[idx]]
    /\ trail' = Rebound(trail, idx)
    /\ idx' = IF idx < NBodies THEN idx + 1 ELSE 0
    /\ pc' = IF idx < NBodies THEN "vv_pos" ELSE "vv_accnext"
    /\ UNCHANGED <<prog, kep, job, orb, lock, dedup, m, v, accs, new_accs, positions, velocities, next_positions,
                   next_velocities, nsteps, left, uiVars, obsVars, frameVars, histVars>>

\* a(t+dt) taken at the positions the step started from
PhysAccNext_stale ==
    /\ prog = "main" /\ pc = "vv_accnext"
    /\ new_accs' = phys_compute_accelerations(positions, m)
    /\ next_velocities' = [i \in Bodies |->
            FAdd(velocities[i], FScale(FAdd(accs[i], new_accs'[i]), sim_dt, 2))]
    /\ idx' = 1
    /\ pc' = "vv_vel"
    /\ UNCHANGED <<prog, kep, job, orb, lock, dedup, trail, physVars, accs, positions, velocities, next_positions,
                   nsteps, left, uiVars, obsVars, frameVars, histVars>>

\* physics.py velocity_verlet_step: a(t+dt) and the new velocities
PhysAccNext ==
    /\ prog = "main" /\ pc = "vv_accnext"
    /\ new_accs' = phys_compute_accelerations(r, m)
    /\ next_velocities' = [i \in Bodies |->
            FAdd(velocities[i], FScale(FAdd(accs[i], new_accs'[i]), sim_dt, 2))]
    /\ idx' = 1
    /\ pc' = "vv_vel"
    /\ UNCHANGED <<prog, kep, job, orb, lock, dedup, trail, physVars, accs, positions, velocities, next_positions,
                   nsteps, left, uiVars, obsVars, frameVars, histVars>>

\* physics.py velocity_verlet_step: b.velocity = next_velocities[idx]; after the
\* last body the call returns to the loop of _on_timer
PhysWriteVelocity ==
    /\ prog = "main" /\ pc = "vv_vel"
    /\ v' = [v EXCEPT ![idx] = next_velocities[idx]]
    /\ IF idx < NBodies
       THEN /\ idx' = idx + 1
            /\ UNCHANGED <<pc, accs, new_accs, positions, velocities, next_positions,
                           next_velocities, left, histVars>>
       ELSE /\ idx' = 0
            /\ accs' = Zero /\ new_accs' = Zero
            /\ positions' = Zero /\ velocities' = Zero
            /\ next_positions' = Zero /\ next_velocities' = Zero
            /\ StepDone(v', "vv_begin", "diag")
    /\ UNCHANGED <<prog, kep, job, orb, lock, dedup, trail, m, r, nsteps, uiVars, obsVars, frameVars>>

\* system_energy squaring the bodies' velocities in place
Diagnostics_inplace ==
    /\ prog = "main" /\ pc = "diag"
    /\ v' = [i \in Bodies |-> FMul(v[i], v[i])]
    /\ diag' = [r |-> r, v |-> v, k |-> steps, e |-> system_energy(r, v, m)]
    /\ pc' = "render"
    /\ UNCHANGED <<prog, kep, job, orb, lock, dedup, trail, m, r, stepVars, nsteps, left, uiVars, drawn, frameVars, histVars>>

\* _on_timer: system_energy(self.bodies) reads masses, positions and velocities
Diagnostics ==
    /\ prog = "main" /\ pc = "diag"
    /\ diag' = [r |-> r, v |-> v, k |-> steps, e |-> system_energy(r, v, m)]
    /\ pc' = "render"
    /\ UNCHANGED <<prog, kep, job, orb, lock, dedup, trail, physVars, stepVars, nsteps, left, uiVars, drawn, frameVars, histVars>>

\* the camera offset added to the focus body's position in place
Render_recentre ==
    /\ prog = "main" /\ pc = "render"
    /\ r' = [r EXCEPT ![focus_idx + 1] = FAdd(@, 1)]
    /\ drawn' = [r |-> r', k |-> steps]
    /\ trail' = KeepLast(trail, Kept(r', steps), trail_len)
    /\ pc' = "idle"
    /\ UNCHANGED <<prog, kep, job, orb, lock, dedup, m, v, stepVars, nsteps, left, uiVars, diag, frameVars, histVars>>

\* _on_timer: the camera reads the focus body's position, render_planets reads
\* every body's position (and _update_trail appends a copy of it to body.trail)
Render ==
    /\ prog = "main" /\ pc = "render"
    /\ drawn' = [r |-> r, k |-> steps]
    /\ trail' = KeepLast(trail, Kept(r, steps), trail_len)
    /\ pc' = "idle"
    /\ UNCHANGED <<prog, kep, job, orb, lock, dedup, physVars, stepVars, nsteps, left, uiVars, diag, frameVars, histVars>>

NextMain ==
    \/ OnPause \/ OnTimescale \/ OnFocus \/ OnTimer
    \/ PhysBegin \/ PhysWritePosition \/ PhysAccNext \/ PhysWriteVelocity
    \/ Diagnostics \/ Render

\* ------------------------------------------------- solar_system.py script
RECURSIVE TotalMom(_, _, _)
TotalMom(mm, vv, i) ==
    IF i > NBodies THEN 0 ELSE FAdd(FMul(mm[i], vv[i]), TotalMom(mm, vv, i + 1))

\* "Shift into barycenter frame": bodies[0].v = - total_mom / bodies[0].m
BarycenterShift ==
    /\ prog = "vpython" /\ pc = "shift"
    /\ v' = [v EXCEPT ![1] = FDiv(FNeg(TotalMom(m, v, 1)), m[1])]
    /\ hist' = <<Snapshot(r, v')>>
    /\ pc' = "accs0"
    /\ UNCHANGED <<prog, kep, job, orb, lock, dedup, trail, m, r, stepVars, nsteps, left, uiVars, obsVars, frameVars, steps,
                   diverged>>

\* accs = compute_accelerations(bodies); initial_energy = total_energy(bodies)
InitialAccs ==
    /\ prog = "vpython" /\ pc = "accs0"
    /\ accs' = compute_accelerations(r, m)
    /\ diag' = [r |-> r, v |-> v, k |-> steps, e |-> total_energy(r, v, m)]
    /\ pc' = "loop"
    /\ UNCHANGED <<prog, kep, job, orb, lock, dedup, trail, physVars, new_accs, positions, velocities, next_positions,
                   next_velocities, idx, nsteps, left, uiVars, drawn, frameVars, histVars>>

\* the handlers run when the loop yields in rate(visual_fps)
\* toggle_run(b)
toggle_run ==
    /\ prog = "vpython" /\ pc = "loop"
    /\ running' = ~running
    /\ UNCHANGED <<prog, kep, job, orb, lock, dedup, trail, pc, sim_dt, physVars, stepVars, nsteps, left, paused, timescale,
                   time_scale, focus_idx, obsVars, frameVars, histVars>>

\* on_time_scale(s), s.value a position of the slider
on_time_scale ==
    /\ prog = "vpython" /\ pc = "loop"
    /\ \E value \in {TsMin, TsStart, TsMax} : time_scale' = value
    /\ UNCHANGED <<prog, kep, job, orb, lock, dedup, trail, pc, sim_dt, physVars, stepVars, nsteps, left, paused, timescale,
                   running, focus_idx, obsVars, frameVars, histVars>>

\* focus_next(): the next body; scene.center is read from its position
focus_next ==
    /\ prog = "vpython" /\ pc = "loop"
    /\ focus_idx' = (focus_idx + 1) % NBodies
    /\ UNCHANGED <<prog, kep, job, orb, lock, dedup, trail, pc, sim_dt, physVars, stepVars, nsteps, left, paused, timescale,
                   running, time_scale, obsVars, frameVars, histVars>>

\* the step count without its lower clamp
loop_nsteps_nomax(ts) == Min(TDiv(ts, 100 * visual_fps * dt_seconds), StepCap)

\* nsteps = min(max(1, int(time_scale / visual_fps / dt)), 50), ts in hundredths
loop_nsteps(ts) == Min(Max(1, TDiv(ts, 100 * visual_fps * dt_seconds)), StepCap)

\* one pass of `while True` up to the step loop: rate(), the pause test, nsteps
LoopIter ==
    /\ prog = "vpython" /\ pc = "loop"
    /\ frame < MaxFrames
    /\ frame' = frame + 1
    /\ steps0' = steps
    /\ nsteps' = IF running THEN loop_nsteps(time_scale) ELSE 0
    /\ left' = nsteps'
    /\ idx' = IF nsteps' > 0 THEN 1 ELSE 0
    /\ pc' = IF nsteps' > 0 THEN "vv_pos" ELSE "loop"
    /\ UNCHANGED <<prog, kep, job, orb, lock, dedup, trail, physVars, accs, new_accs, positions, velocities,
                   next_positions, next_velocities, uiVars, obsVars, histVars>>

\* velocity_verlet_step: b.r = b.r + b.v * dt + 0.5 * accs[i] * dt * dt
VPWritePosition ==
    /\ prog = "vpython" /\ pc = "vv_pos"
    /\ r' = [r EXCEPT ![idx] =
                FAdd(FAdd(r[idx], FScale(v[idx], sim_dt, 1)), FScale(accs[idx], sim_dt * sim_dt, 2))]
    /\ trail' = Rebound(trail, idx)
    /\ idx' = IF idx < NBodies THEN idx + 1 ELSE 0
    /\ pc' = IF idx < NBodies THEN "vv_pos" ELSE "vv_accnext"
    /\ UNCHANGED <<prog, kep, job, orb, lock, dedup, m, v, accs, new_accs, positions, velocities, next_positions,
                   next_velocities, nsteps, left, uiVars, obsVars, frameVars, histVars>>

\* velocity_verlet_step: new_accs = compute_accelerations(bodies)
VPAccNext ==
    /\ prog = "vpython" /\ pc = "vv_accnext"
    /\ new_accs' = compute_accelerations(r, m)
    /\ idx' = 1
    /\ pc' = "vv_vel"
    /\ UNCHANGED <<prog, kep, job, orb, lock, dedup, trail, physVars, accs, positions, velocities, next_positions,
                   next_velocities, nsteps, left, uiVars, obsVars, frameVars, histVars>>

\* the loop calling velocity_verlet_step without keeping what it returns
VPWriteVelocity_dropsaccs ==
    /\ prog = "vpython" /\ pc = "vv_vel"
    /\ v' = [v EXCEPT ![idx] =
                FAdd(v[idx], FScale(FAdd(accs[idx], new_accs[idx]), sim_dt, 2))]
    /\ IF idx < NBodies
       THEN /\ idx' = idx + 1
            /\ UNCHANGED <<pc, accs, new_accs, left, histVars>>
       ELSE /\ idx' = IF left - 1 > 0 THEN 1 ELSE 0
            /\ accs' = accs
            /\ new_accs' = Zero
            /\ StepDone(v', "vv_pos", "visual")
    /\ UNCHANGED <<prog, kep, job, orb, lock, dedup, trail, m, r, positions, velocities, next_positions, next_velocities,
                   nsteps, uiVars, obsVars, frameVars>>

\* velocity_verlet_step: b.v = b.v + 0.5 * (accs[i] + new_accs[i]) * dt; after the
\* last body `return new_accs` and the loop's `accs = ...`
VPWriteVelocity ==
    /\ prog = "vpython" /\ pc = "vv_vel"
    /\ v' = [v EXCEPT ![idx] =
                FAdd(v[idx], FScale(FAdd(accs[idx], new_accs[idx]), sim_dt, 2))]
    /\ IF idx < NBodies
       THEN /\ idx' = idx + 1
            /\ UNCHANGED <<pc, accs, new_accs, left, histVars>>
       ELSE /\ idx' = IF left - 1 > 0 THEN 1 ELSE 0
            /\ accs' = new_accs
            /\ new_accs' = Zero
            /\ StepDone(v', "vv_pos", "visual")
    /\ UNCHANGED <<prog, kep, job, orb, lock, dedup, trail, m, r, positions, velocities, next_positions, next_velocities,
                   nsteps, uiVars, obsVars, frameVars>>

\* update_visual scaling b.r in place instead of scaling a copy
UpdateVisual_inplace ==
    /\ prog = "vpython" /\ pc = "visual"
    /\ r' = [i \in Bodies |-> FScale(r[i], 1, 2)]
    /\ drawn' = [r |-> r', k |-> steps]
    /\ trail' = KeepLast(trail, Kept(r', steps), retain)
    /\ pc' = "loop"
    /\ UNCHANGED <<prog, kep, job, orb, lock, dedup, m, v, stepVars, nsteps, left, uiVars, diag, frameVars, histVars>>

\* for b in bodies: b.update_visual()
UpdateVisual ==
    /\ prog = "vpython" /\ pc = "visual"
    /\ drawn' = [r |-> r, k |-> steps]
    /\ trail' = KeepLast(trail, Kept(r, steps), retain)
    /\ pc' = "loop"
    /\ UNCHANGED <<prog, kep, job, orb, lock, dedup, physVars, stepVars, nsteps, left, uiVars, diag, frameVars, histVars>>

NextVPython ==
    \/ BarycenterShift \/ InitialAccs
    \/ toggle_run \/ on_time_scale \/ focus_next \/ LoopIter
    \/ VPWritePosition \/ VPAccNext \/ VPWriteVelocity
    \/ UpdateVisual

Next == NextMain \/ NextVPython

Spec == Init /\ [][Next]_vars

\* ------------------------------------------- element-to-state conversions
\* Angles and the eccentricity are fixed-point numbers, KS units to one.
KS == 1000
KPi == 3142
KTwoPi == 6283
\* physics.py: the Newton loop runs range(10)
KeplerIters == 10
\* solar_system.py: newton(..., maxiter=200)
NewtonMaxiter == 200
\* solar_system.py: E0 = M if e < 0.8
E0Threshold == 800

\* the inputs of a call (thousandths; a and mu by their sign)
KepEcc == {-500, 0, 17, 500, 990, 1000, 1200}
KepM == {0, 82, 1571, 3051}
KepSign == {-1, 0, 1}

\* signed division, rounding toward zero
SDiv(x, y) == IF y > 0 THEN TDiv(x, y) ELSE TDiv(-x, -y)

\* np.sin, by Bhaskara's rational approximation on each half period
ISin(x) ==
    LET y == x % KTwoPi
        neg == y > KPi
        z == IF neg THEN Min(y - KPi, KPi) ELSE y
        p == z * (KPi - z)
        sn == (KS * ((16 * p) \div 100)) \div ((5 * KPi * KPi - 4 * p) \div 100)
    IN IF neg THEN -sn ELSE sn

\* np.cos
ICos(x) == ISin(x + KPi \div 2)

\* E - e sin E - M
kepler_eq(E, e, M) == E - TDiv(e * ISin(E), KS) - M

\* 1 - e cos E
kepler_fp(E, e) == KS - TDiv(e * ICos(E), KS)

\* the iterate solves Kepler's equation to the resolution of the model
Converged(k) == ~k.nan /\ kepler_eq(k.E, k.e, k.M) \in -1..1

NoOut == [kind |-> "none", E |-> 0, finite |-> TRUE]

KepCall(fn, a, e, mu, M) ==
    [fn |-> fn, pc |-> "newton", a |-> a, e |-> e, mu |-> mu,
     M |-> IF fn = "elements_to_state" THEN M % KTwoPi ELSE M,
     E |-> IF fn = "elements_to_state" /\ ~(e < E0Threshold) THEN KPi
           ELSE IF fn = "elements_to_state" THEN M % KTwoPi ELSE M,
     nan |-> FALSE, iter |-> 0, out |-> NoOut]

\* a call of either conversion with elements of the input grid
InitKepler ==
    /\ prog = "kepler" /\ job = JobIdle /\ orb = OrbitStart
    /\ lock = ScriptIdle /\ dedup = ScriptIdle
    /\ \E fn \in {"kepler_to_cartesian", "elements_to_state"} :
       \E a \in KepSign : \E e \in KepEcc : \E mu \in KepSign : \E M \in KepM :
           kep = KepCall(fn, a, e, mu, M)
    /\ pc = "idle"
    /\ m = [i \in Bodies |-> IF i = 1 THEN MSun ELSE MPlanet]
    /\ r = [i \in Bodies |-> IF i = 1 THEN 0 ELSE 2]
    /\ v = [i \in Bodies |-> 0]
    /\ accs = Zero /\ new_accs = Zero
    /\ positions = Zero /\ velocities = Zero
    /\ next_positions = Zero /\ next_velocities = Zero
    /\ idx = 0 /\ nsteps = 0 /\ left = 0
    /\ paused = FALSE /\ timescale = 1
    /\ running = TRUE /\ time_scale = TsStart
    /\ focus_idx = 0 /\ sim_dt = dt
    /\ diag = NoRead /\ drawn = NoRead /\ trail = << >>
    /\ frame = 0 /\ steps0 = 0 /\ steps = 0
    /\ hist = <<Snapshot(r, v)>>
    /\ diverged = FALSE

driverVars == <<job, orb, lock, dedup, trail, pc, m, r, v, accs, new_accs, positions, velocities,
                next_positions, next_velocities, idx, nsteps, left, paused,
                timescale, running, time_scale, focus_idx, sim_dt, diag, drawn,
                frame, steps0, steps, hist, diverged>>

\* physics.py 44-45: one pass of the fixed loop, E -= kepler_eq(E) / (1 - e cos E);
\* numpy divides by zero without raising, the iterate is then not finite
KeplerIter ==
    /\ prog = "kepler" /\ kep.fn = "kepler_to_cartesian" /\ kep.pc = "newton"
    /\ kep.iter < KeplerIters
    /\ LET f == kepler_eq(kep.E, kep.e, kep.M)
           fp == kepler_fp(kep.E, kep.e)
       IN kep' = IF kep.nan \/ fp = 0
                 THEN [kep EXCEPT !.nan = TRUE, !.iter = @ + 1]
                 ELSE [kep EXCEPT !.E = @ - SDiv(f * KS, fp), !.iter = @ + 1]
    /\ UNCHANGED <<prog, driverVars>>

\* physics.py 46-69: the state vector is computed from the last iterate;
\* (mu/a)**0.5 raises ZeroDivisionError for a = 0, nothing else raises
KeplerReturn ==
    /\ prog = "kepler" /\ kep.fn = "kepler_to_cartesian" /\ kep.pc = "newton"
    /\ kep.iter = KeplerIters
    /\ kep' = [kep EXCEPT !.pc = "done", !.out =
                 IF kep.a = 0
                 THEN [kind |-> "ZeroDivisionError", E |-> 0, finite |-> TRUE]
                 ELSE [kind |-> "pair", E |-> kep.E,
                       finite |-> /\ ~kep.nan
                                  /\ kep.e \in -KS..KS
                                  /\ kep.mu * kep.a >= 0
                                  /\ kepler_fp(kep.E, kep.e) # 0]]
    /\ UNCHANGED <<prog, driverVars>>

\* solar_system.py 128: one iteration of scipy.optimize.newton with fprime;
\* it returns on an exact root or a step below tol, and raises RuntimeError
\* on a zero derivative or after maxiter iterations
NewtonIter ==
    /\ prog = "kepler" /\ kep.fn = "elements_to_state" /\ kep.pc = "newton"
    /\ LET f == kepler_eq(kep.E, kep.e, kep.M)
           fp == kepler_fp(kep.E, kep.e)
           raise == [kep EXCEPT !.pc = "done", !.out =
                        [kind |-> "RuntimeError", E |-> 0, finite |-> TRUE]]
       IN kep' = IF kep.iter = NewtonMaxiter THEN raise
                 ELSE IF f = 0 THEN [kep EXCEPT !.pc = "state"]
                 ELSE IF fp = 0 THEN raise
                 ELSE IF SDiv(f * KS, fp) = 0 THEN [kep EXCEPT !.pc = "state"]
                 ELSE [kep EXCEPT !.E = @ - SDiv(f * KS, fp), !.iter = @ + 1]
    /\ UNCHANGED <<prog, driverVars>>

\* solar_system.py 146-193: math.sqrt raises ValueError for mu a (1 - e^2) < 0,
\* mu / h raises ZeroDivisionError for h = 0; the numpy operations do not raise
ElementsToState ==
    /\ prog = "kepler" /\ kep.fn = "elements_to_state" /\ kep.pc = "state"
    /\ LET h2 == kep.mu * kep.a * Sign(KS * KS - kep.e * kep.e)
       IN kep' = [kep EXCEPT !.pc = "done", !.out =
                    IF h2 < 0 THEN [kind |-> "ValueError", E |-> 0, finite |-> TRUE]
                    ELSE IF h2 = 0
                    THEN [kind |-> "ZeroDivisionError", E |-> 0, finite |-> TRUE]
                    ELSE [kind |-> "pair", E |-> kep.E,
                          finite |-> /\ kep.e \in -KS..KS
                                     /\ kepler_fp(kep.E, kep.e) # 0]]
    /\ UNCHANGED <<prog, driverVars>>

NextKepler == KeplerIter \/ KeplerReturn \/ NewtonIter \/ ElementsToState

SpecKepler == InitKepler /\ [][NextKepler]_vars

\* ------------------------------- the field and the energy as functions
\* masses, positions and velocities of the bodies a function is called with
MassGrid == {1, 2, 4}
PosGrid == {0, 1, 3}
VelGrid == {0, 2}

\* a call of compute_accelerations, system_energy or total_energy on any bodies
InitField ==
    /\ prog = "field" /\ pc = "call"
    /\ m \in [Bodies -> MassGrid]
    /\ r \in [Bodies -> PosGrid]
    /\ v \in [Bodies -> VelGrid]
    /\ kep = KepIdle /\ job = JobIdle /\ orb = OrbitStart
    /\ lock = ScriptIdle /\ dedup = ScriptIdle
    /\ accs = Zero /\ new_accs = Zero
    /\ positions = Zero /\ velocities = Zero
    /\ next_positions = Zero /\ next_velocities = Zero
    /\ idx = 0 /\ nsteps = 0 /\ left = 0
    /\ paused = FALSE /\ timescale = 1
    /\ running = TRUE /\ time_scale = TsStart
    /\ focus_idx = 0 /\ sim_dt = dt
    /\ diag = NoRead /\ drawn = NoRead /\ trail = << >>
    /\ frame = 0 /\ steps0 = 0 /\ steps = 0
    /\ hist = <<Snapshot(r, v)>>
    /\ diverged = FALSE

fieldFrame == <<prog, kep, job, orb, lock, dedup, trail, m, r, v, new_accs, positions, velocities, next_positions,
                next_velocities, idx, nsteps, left, uiVars, drawn, frameVars, histVars>>

\* physics.py compute_accelerations(bodies)
FieldAccPhys ==
    /\ prog = "field" /\ pc = "call"
    /\ accs' = phys_compute_accelerations(r, m)
    /\ pc' = "acc_phys"
    /\ UNCHANGED <<fieldFrame, diag>>

\* solar_system.py compute_accelerations(bodies)
FieldAcc ==
    /\ prog = "field" /\ pc = "call"
    /\ accs' = compute_accelerations(r, m)
    /\ pc' = "acc"
    /\ UNCHANGED <<fieldFrame, diag>>

\* physics.py system_energy(bodies)
FieldEnergyPhys ==
    /\ prog = "field" /\ pc = "call"
    /\ diag' = [r |-> r, v |-> v, k |-> 0, e |-> system_energy(r, v, m)]
    /\ pc' = "energy_phys"
    /\ UNCHANGED <<fieldFrame, accs>>

\* solar_system.py total_energy(bodies)
FieldEnergy ==
    /\ prog = "field" /\ pc = "call"
    /\ diag' = [r |-> r, v |-> v, k |-> 0, e |-> total_energy(r, v, m)]
    /\ pc' = "energy"
    /\ UNCHANGED <<fieldFrame, accs>>

NextField == FieldAccPhys \/ FieldAcc \/ FieldEnergyPhys \/ FieldEnergy

SpecField == InitField /\ [][NextField]_vars

\* ------------------------------------------------------- job sequencing
\* profits of the input grid
ProfitGrid == {-1, 0, 1, 2}

\* s with the job x put after every job of profit at least its own
RECURSIVE InsertDesc(_, _)
InsertDesc(s, x) ==
    IF s = << >> THEN <<x>>
    ELSE IF Head(s)[2] >= x[2] THEN <<Head(s)>> \o InsertDesc(Tail(s), x)
    ELSE <<x>> \o s

\* the jobs in input order, not sorted
SortDesc_unsorted(s) == s

\* jobs.sort(key=lambda x: x[1], reverse=True): by profit, descending, stable
RECURSIVE SortDesc(_)
SortDesc(s) ==
    IF s = << >> THEN << >>
    ELSE InsertDesc(SortDesc(SubSeq(s, 1, Len(s) - 1)), s[Len(s)])

\* max(deadline) of a non-empty list
RECURSIVE MaxOf(_)
MaxOf(s) == IF Len(s) = 1 THEN s[1] ELSE Max(s[1], MaxOf(Tail(s)))

\* find(slot): the value returned
RECURSIVE find(_, _)
find(parent, slot) ==
    IF parent[slot] # slot THEN find(parent, parent[slot]) ELSE slot

\* find(slot): the parent array it leaves, every slot on the path set to the root
RECURSIVE find_parent(_, _)
find_parent(parent, slot) ==
    IF parent[slot] # slot
    THEN [find_parent(parent, parent[slot]) EXCEPT ![slot] = find(parent, slot)]
    ELSE parent

\* a call jobSequencing(deadline, profit) on lists of the same length
InitJobs ==
    /\ prog = "jobs" /\ pc = "idle"
    /\ \E n \in 0..MaxJobs :
       \E deadline \in [1..n -> 1..MaxDeadline] : \E profit \in [1..n -> ProfitGrid] :
           job = [JobIdle EXCEPT !.pc = "call", !.deadline = deadline, !.profit = profit]
    /\ kep = KepIdle /\ orb = OrbitStart
    /\ lock = ScriptIdle /\ dedup = ScriptIdle
    /\ m = [i \in Bodies |-> IF i = 1 THEN MSun ELSE MPlanet]
    /\ r = [i \in Bodies |-> IF i = 1 THEN 0 ELSE 2]
    /\ v = [i \in Bodies |-> 0]
    /\ accs = Zero /\ new_accs = Zero
    /\ positions = Zero /\ velocities = Zero
    /\ next_positions = Zero /\ next_velocities = Zero
    /\ idx = 0 /\ nsteps = 0 /\ left = 0
    /\ paused = FALSE /\ timescale = 1
    /\ running = TRUE /\ time_scale = TsStart
    /\ focus_idx = 0 /\ sim_dt = dt
    /\ diag = NoRead /\ drawn = NoRead /\ trail = << >>
    /\ frame = 0 /\ steps0 = 0 /\ steps = 0
    /\ hist = <<Snapshot(r, v)>>
    /\ diverged = FALSE

jobFrame == <<prog, kep, trail, pc, m, r, v, accs, new_accs, positions, velocities,
              next_positions, next_velocities, idx, nsteps, left, uiVars, obsVars,
              frameVars, histVars>>

\* lines 3-7 and 14-15: the sorted jobs, max(deadline) (ValueError on an empty
\* list), the parent array, the counters
JobsBegin ==
    /\ prog = "jobs" /\ job.pc = "call"
    /\ IF Len(job.deadline) = 0
       THEN job' = [job EXCEPT !.pc = "raised"]
       ELSE job' = [job EXCEPT
                !.pc = "loop",
                !.jobs = SortDesc([k \in 1..Len(job.deadline) |->
                                      <<job.deadline[k], job.profit[k]>>]),
                !.parent = [t \in 0..MaxOf(job.deadline) |-> t],
                !.i = 1, !.count = 0, !.total_profit = 0]
    /\ UNCHANGED <<jobFrame, orb, lock, dedup>>

\* lines 17-22: one pass of `for d, p in jobs`
JobsIter ==
    /\ prog = "jobs" /\ job.pc = "loop" /\ job.i <= Len(job.jobs)
    /\ LET d         == job.jobs[job.i][1]
           p         == job.jobs[job.i][2]
           available == find(job.parent, d)
           found     == find_parent(job.parent, d)
       IN  job' = [job EXCEPT
               !.i = @ + 1,
               !.sched = Append(@, available),
               !.total_profit = IF available > 0 THEN @ + p ELSE @,
               !.count = IF available > 0 THEN @ + 1 ELSE @,
               !.parent = IF available > 0
                          THEN [found EXCEPT ![available] = available - 1]
                          ELSE found]
    /\ UNCHANGED <<jobFrame, orb, lock, dedup>>

\* line 24: return [count, total_profit]
JobsReturn ==
    /\ prog = "jobs" /\ job.pc = "loop" /\ job.i > Len(job.jobs)
    /\ job' = [job EXCEPT !.pc = "done", !.out = <<job.count, job.total_profit>>]
    /\ UNCHANGED <<jobFrame, orb, lock, dedup>>

NextJobs == JobsBegin \/ JobsIter \/ JobsReturn

SpecJobs == InitJobs /\ [][NextJobs]_vars

\* ------------------------------------------------------- two-body orbit
\* the test of one orbital period: the bodies built, then OrbitSteps steps
InitOrbit ==
    /\ prog = "orbit" /\ pc = "idle"
    /\ orb = OrbitStart
    /\ lock = ScriptIdle /\ dedup = ScriptIdle
    /\ kep = KepIdle /\ job = JobIdle
    /\ m = [i \in Bodies |-> IF i = 1 THEN MSun ELSE MPlanet]
    /\ r = [i \in Bodies |-> IF i = 1 THEN 0 ELSE 2]
    /\ v = [i \in Bodies |-> 0]
    /\ accs = Zero /\ new_accs = Zero
    /\ positions = Zero /\ velocities = Zero
    /\ next_positions = Zero /\ next_velocities = Zero
    /\ idx = 0 /\ nsteps = 0 /\ left = 0
    /\ paused = FALSE /\ timescale = 1
    /\ running = TRUE /\ time_scale = TsStart
    /\ focus_idx = 0 /\ sim_dt = dt
    /\ diag = NoRead /\ drawn = NoRead /\ trail = << >>
    /\ frame = 0 /\ steps0 = 0 /\ steps = 0
    /\ hist = <<Snapshot(r, v)>>
    /\ diverged = FALSE

\* one call velocity_verlet_step(bodies, dt) of the test's loop
OrbitStep ==
    /\ prog = "orbit" /\ orb.k < OrbitSteps
    /\ orb' = orb_step(orb)
    /\ UNCHANGED <<jobFrame, job, lock, dedup>>

SpecOrbit == InitOrbit /\ [][OrbitStep]_vars

\* ------------------------------------------------------ scripts of src/dsa
\* the drivers, the conversions, the orbit and jobSequencing are not running
DriversIdle ==
    /\ pc = "idle"
    /\ kep = KepIdle /\ job = JobIdle /\ orb = OrbitStart
    /\ m = [i \in Bodies |-> IF i = 1 THEN MSun ELSE MPlanet]
    /\ r = [i \in Bodies |-> IF i = 1 THEN 0 ELSE 2]
    /\ v = [i \in Bodies |-> 0]
    /\ accs = Zero /\ new_accs = Zero
    /\ positions = Zero /\ velocities = Zero
    /\ next_positions = Zero /\ next_velocities = Zero
    /\ idx = 0 /\ nsteps = 0 /\ left = 0
    /\ paused = FALSE /\ timescale = 1
    /\ running = TRUE /\ time_scale = TsStart
    /\ focus_idx = 0 /\ sim_dt = dt
    /\ diag = NoRead /\ drawn = NoRead /\ trail = << >>
    /\ frame = 0 /\ steps0 = 0 /\ steps = 0
    /\ hist = <<Snapshot(r, v)>>
    /\ diverged = FALSE

\* the decimal digits of x >= 0, the last one first
RECURSIVE Digits(_)
Digits(x) == IF x < 10 THEN <<x>> ELSE <<x % 10>> \o Digits(x \div 10)

\* "Minimum rotations to unlock a circular lock.py", lines 1-3, with any two
\* codes of the same number of digits in place of 2345 and 5432
InitLock ==
    /\ prog = "lock" /\ DriversIdle /\ dedup = ScriptIdle
    /\ \E R \in 0..MaxCode : \E D \in 0..MaxCode :
          /\ Len(Digits(R)) = Len(Digits(D))
          /\ lock = [pc |-> "loop", R |-> R, D |-> D, count |-> 0,
                     digit1 |-> 0, digit2 |-> 0, diff1 |-> 0, diff2 |-> 0,
                     R0 |-> R, D0 |-> D, passes |-> 0, out |-> -1]

\* lines 4-11: one pass of `while R > 0 and D > 0`
LockIter ==
    /\ prog = "lock" /\ lock.pc = "loop"
    /\ lock.R > 0 /\ lock.D > 0
    /\ LET digit1 == lock.R % 10
           digit2 == lock.D % 10
           diff1  == IF digit1 >= digit2 THEN digit1 - digit2 ELSE digit2 - digit1
           diff2  == 10 - digit2
       IN  lock' = [lock EXCEPT
               !.digit1 = digit1, !.digit2 = digit2,
               !.diff1 = diff1, !.diff2 = diff2,
               !.count = @ + Min(diff1, digit2),
               !.R = @ \div 10, !.D = @ \div 10,
               !.passes = @ + 1]
    /\ UNCHANGED <<jobFrame, job, orb, dedup>>

\* line 12, when the loop has ended: print(count)
LockPrint ==
    /\ prog = "lock" /\ lock.pc = "loop"
    /\ ~(lock.R > 0 /\ lock.D > 0)
    /\ lock' = [lock EXCEPT !.pc = "done", !.out = lock.count]
    /\ UNCHANGED <<jobFrame, job, orb, dedup>>

SpecLock == InitLock /\ [][LockIter \/ LockPrint]_vars

\* the letters of the input strings, 1 < 2 < 3 standing for "a" < "b" < "c"
Alphabet == 1..3

\* "Remove Duplicate Letters.py", lines 2-5, with any string in place of
\* "cbacdcbc": Counter(s), seen = set(), stack = []
InitDedup ==
    /\ prog = "dedup" /\ DriversIdle /\ lock = ScriptIdle
    /\ \E n \in 0..MaxLen : \E s \in [1..n -> Alphabet] :
          dedup = [pc |-> "loop", s |-> s, i |-> 1,
                   Counter |-> [c \in Alphabet |-> Cardinality({k \in 1..n : s[k] = c})],
                   seen |-> {}, stack |-> << >>, result |-> << >>]

\* the letter is popped whether or not it occurs again later
RECURSIVE PopWhile_anyway(_, _, _)
PopWhile_anyway(stack, ch, Counter) ==
    IF stack # << >> /\ ch < stack[Len(stack)]
    THEN PopWhile_anyway(SubSeq(stack, 1, Len(stack) - 1), ch, Counter)
    ELSE stack

\* lines 11-13: the stack left by
\* `while stack and ch < stack[-1] and Counter[stack[-1]] > 0: stack.pop()`
RECURSIVE PopWhile(_, _, _)
PopWhile(stack, ch, Counter) ==
    IF stack # << >> /\ ch < stack[Len(stack)] /\ Counter[stack[Len(stack)]] > 0
    THEN PopWhile(SubSeq(stack, 1, Len(stack) - 1), ch, Counter)
    ELSE stack

\* lines 7-16: one pass of `for ch in s`
DedupChar ==
    /\ prog = "dedup" /\ dedup.pc = "loop" /\ dedup.i <= Len(dedup.s)
    /\ LET ch      == dedup.s[dedup.i]
           Counter == [dedup.Counter EXCEPT ![ch] = @ - 1]
           stack   == PopWhile(dedup.stack, ch, Counter)
           removed == {dedup.stack[k] : k \in (Len(stack) + 1)..Len(dedup.stack)}
       IN  IF ch \in dedup.seen
           THEN dedup' = [dedup EXCEPT !.i = @ + 1, !.Counter = Counter]
           ELSE dedup' = [dedup EXCEPT
                    !.i = @ + 1, !.Counter = Counter,
                    !.stack = Append(stack, ch),
                    !.seen = (@ \ removed) \cup {ch}]
    /\ UNCHANGED <<jobFrame, job, orb, lock>>

\* lines 17-19, when the loop has ended: result = "".join(map(str, stack))
DedupPrint ==
    /\ prog = "dedup" /\ dedup.pc = "loop" /\ dedup.i > Len(dedup.s)
    /\ dedup' = [dedup EXCEPT !.pc = "done", !.result = dedup.stack]
    /\ UNCHANGED <<jobFrame, job, orb, lock>>

SpecDedup == InitDedup /\ [][DedupChar \/ DedupPrint]_vars

\* ------------------------------------------------------------------ claims
InStep == pc \in {"vv_pos", "vv_accnext", "vv_vel"}
\* the state the running (or next) step starts from
Pre == hist[Len(hist)]
\* the accelerations of the running script at positions rr
AccAt(rr) == IF prog = "main" THEN phys_compute_accelerations(rr, m)
             ELSE compute_accelerations(rr, m)
\* the velocity-Verlet formulas: r(t)+v(t)dt+a(t)dt^2/2 and v(t)+(a(t)+a(t+dt))dt/2
VerletR(s, a) == [i \in Bodies |->
    FAdd(FAdd(s.r[i], FScale(s.v[i], dt, 1)), FScale(a[i], dt * dt, 2))]
VerletV(s, a, a2) == [i \in Bodies |-> FAdd(s.v[i], FScale(FAdd(a[i], a2[i]), dt, 2))]
\* the first idx-1 entries of f are those of new, the others those of old
Written(f, new, old) ==
    \A i \in Bodies : f[i] = IF idx = 0 \/ i < idx THEN new[i] ELSE old[i]

\* C1: in every integration step a(t) is the acceleration at the pre-step
\* positions; the bodies' positions are written one after another as
\* r(t)+v(t)dt+a(t)dt^2/2 while the velocities stay v(t); a(t+dt) is taken when
\* every position is written and from the new positions; then the velocities are
\* written as v(t)+(a(t)+a(t+dt))dt/2; so every completed step maps the state it
\* started from to its velocity-Verlet image.
C1_VerletOrder ==
    LET a0 == AccAt(Pre.r)
        r1 == VerletR(Pre, a0)
        a1 == AccAt(r1)
    IN  /\ pc = "vv_pos" =>
              /\ accs = a0
              /\ Written(r, r1, Pre.r)
              /\ v = Pre.v
        /\ pc = "vv_accnext" => r = r1 /\ v = Pre.v /\ accs = a0
        /\ pc = "vv_vel" =>
              /\ r = r1
              /\ accs = a0 /\ new_accs = a1
              /\ Written(v, VerletV(Pre, a0, a1), Pre.v)
        /\ \A k \in 2..Len(hist) :
              LET s  == hist[k - 1]
                  b0 == AccAt(s.r)
                  q  == VerletR(s, b0)
              IN  hist[k] = Snapshot(q, VerletV(s, b0, AccAt(q)))

\* a second step has completed, on finite values, and the accelerations before
\* and after the first step differ
C1_Witness ==
    /\ steps >= 2
    /\ AllFinite(r) /\ AllFinite(v)
    /\ AccAt(hist[1].r) # AccAt(hist[2].r)

NonFinite(s) == ~(AllFinite(s.r) /\ AllFinite(s.v))

\* C2 (as claimed): a step that produces a non-finite position or velocity
\* component leaves every body's position and velocity at its pre-step value.
C2_DivergedStepRollsBack ==
    \A k \in 2..Len(hist) : NonFinite(hist[k]) => hist[k] = hist[k - 1]

\* C3: what the energy diagnostics and the renderer read is, for every body,
\* the position and velocity left by one completed step (or by the set-up),
\* never positions of step k+1 with velocities of step k.
C3_ObserversSeeCommitted ==
    /\ diag.k >= 0 => Snapshot(diag.r, diag.v) = hist[diag.k + 1]
    /\ drawn.k >= 0 => drawn.r = hist[drawn.k + 1].r

\* both observers have read after a step that changed positions and velocities
C3_Witness ==
    /\ prog = "main"
    /\ diag.k >= 2 /\ drawn.k >= 2
    /\ hist[diag.k + 1].r # hist[diag.k].r
    /\ hist[diag.k + 1].v # hist[diag.k].v

IsPaused == IF prog = "main" THEN paused ELSE ~running

\* C4: toggling pause, and every transition taken while paused (timer ticks and
\* loop passes included), leaves every body's mass, position and velocity as is.
C4_PauseKeepsPhysics ==
    [][(IsPaused \/ IsPaused') => UNCHANGED <<m, r, v>>]_vars

\* a timer tick runs while paused, after steps have moved the bodies
C4_Witness ==
    /\ prog = "main" /\ paused /\ pc = "render"
    /\ steps >= 1 /\ steps0 = steps /\ frame >= 2
    /\ hist[Len(hist)] # hist[1]

\* round(num / den) for num >= 0, den > 0 (ties to even, as Python's round)
Round(num, den) ==
    LET q == num \div den
        t == 2 * (num % den)
    IN  IF t > den \/ (t = den /\ q % 2 = 1) THEN q + 1 ELSE q
Clamp(x, lo, hi) == Min(Max(x, lo), hi)

\* the frame that begins is not a paused one
FrameBegins == frame' = frame + 1 /\ ~IsPaused
\* a frame's step loop has ended
StepsOver == pc \in {"diag", "render", "visual"} /\ ~IsPaused

\* C5 (as claimed): the steps of an unpaused frame number
\* clamp(round(timeScale * realDtSeconds / fixedDt), 1, cap).
C5_StepsAreClampedRound ==
    [][FrameBegins =>
        nsteps' = IF prog = "main"
                  THEN Clamp(Round(timescale * timer_ms, 1000 * sim_dt_seconds), 1, StepCap)
                  ELSE Clamp(Round(time_scale, 100 * visual_fps * dt_seconds), 1, StepCap)]_vars

\* C5 (amended): the steps of an unpaused frame number
\* min(max(1, trunc(time_scale / visual_fps / dt)), 50) in solar_system.py and
\* int(timescale) in main.py, and exactly that many are applied, one after another.
C5_StepsPerFrame ==
    /\ [][FrameBegins =>
            nsteps' = IF prog = "main" THEN timescale
                      ELSE Min(Max(1, TDiv(time_scale, 100 * visual_fps * dt_seconds)), 50)]_vars
    /\ [](~IsPaused =>
            /\ pc \in {"vv_begin", "vv_pos", "vv_accnext", "vv_vel"} =>
                    left >= 1 /\ steps = steps0 + (nsteps - left)
            /\ pc \in {"diag", "render", "visual"} =>
                    left = 0 /\ steps = steps0 + nsteps)

\* an unpaused frame of several steps has ended
C5_Witness == StepsOver /\ nsteps >= 2 /\ steps = steps0 + nsteps

\* C6: an unpaused frame runs at least one step and at most a fixed number:
\* 50 in solar_system.py, the slider's largest value in main.py.
C6_StepsBounded ==
    /\ [][FrameBegins => nsteps' \in 1..(IF prog = "main" THEN MaxSlider ELSE StepCap)]_vars
    /\ [](StepsOver => (steps - steps0) \in 1..(IF prog = "main" THEN MaxSlider ELSE StepCap))

\* unpaused frames have ended at the largest time scales
C6_Witness ==
    /\ StepsOver
    /\ \/ prog = "main" /\ timescale = MaxSlider /\ steps - steps0 = MaxSlider
       \/ prog = "vpython" /\ time_scale = TsMax /\ steps - steps0 = 1

\* C7 (as claimed): once a step has produced a non-finite component, no further
\* integration step is made.
C7_NoStepAfterDivergence ==
    [][diverged => (steps' = steps /\ pc' \notin {"vv_begin", "vv_pos", "vv_accnext", "vv_vel"})]_vars

\* C10 (as claimed): mass is never written, and position and velocity are
\* written only inside an integration step.
C10_OnlyIntegratorWrites ==
    [][/\ m' = m
       /\ (r' # r \/ v' # v) => pc \in {"vv_pos", "vv_vel"}]_vars

\* C10 (amended): mass is never written, and position and velocity are written
\* only inside an integration step, except that the set-up of solar_system.py
\* assigns bodies[0].v once, before the first step (the barycenter shift).
C10_WritesIntegratorOrShift ==
    [][/\ m' = m
       /\ r' # r => pc = "vv_pos"
       /\ v' # v => \/ pc = "vv_vel"
                    \/ /\ prog = "vpython" /\ pc = "shift" /\ steps = 0
                       /\ \A i \in Bodies \ {1} : v'[i] = v[i]]_vars

\* the barycenter shift has changed the Sun's velocity, and frames have run
C10_Witness ==
    /\ prog = "vpython" /\ pc = "loop" /\ steps >= 2
    /\ hist[1].v[1] # 0

\* the elements of the call are a closed elliptic orbit about a positive mass
ValidElements == kep.e >= 0 /\ kep.e < KS /\ kep.a > 0 /\ kep.mu > 0

\* C8: a conversion called with e outside [0, 1), a <= 0 or mu <= 0 returns
\* InvalidOrbitalElement at entry and never a state vector.
C8_InvalidElementsRejected ==
    (prog = "kepler" /\ kep.pc = "done")
        => /\ ~ValidElements => kep.out.kind = "InvalidOrbitalElement"
           /\ kep.out.kind = "pair" => ValidElements

\* the iteration cap of the running conversion
IterCap == IF kep.fn = "kepler_to_cartesian" THEN KeplerIters ELSE NewtonMaxiter

\* C9: when the Newton iteration (here for valid elements) reaches its cap
\* without converging, the conversion returns NumericalDivergence, never a
\* state vector computed from the unconverged iterate.
C9_UnconvergedIsError ==
    (/\ prog = "kepler" /\ kep.pc = "done" /\ ValidElements
     /\ kep.iter = IterCap /\ ~Converged(kep))
        => kep.out.kind = "NumericalDivergence"

\* the energy of the running script for positions rr and velocities vv
EnergyAt(rr, vv) == IF prog = "main" THEN system_energy(rr, vv, m)
                    ELSE total_energy(rr, vv, m)

\* C11: the transitions that compute accelerations or the energy leave every
\* body's mass, position and velocity as they were; the accelerations they store
\* are those of the positions and masses alone; and whatever energy was
\* computed before, a completed step leaves the velocity-Verlet image of the
\* state it started from.
C11_FieldAndEnergyReadOnly ==
    [][/\ pc \in {"vv_begin", "vv_accnext", "accs0", "diag"} => UNCHANGED <<m, r, v>>
       /\ pc \in {"vv_begin", "accs0"} => accs' = AccAt(r)
       /\ pc = "vv_accnext" => new_accs' = AccAt(r)
       /\ pc \in {"diag", "accs0"} => diag'.e = EnergyAt(r, v)
       /\ steps' = steps + 1 =>
              LET a0 == AccAt(Pre.r)
                  r1 == VerletR(Pre, a0)
              IN  r' = r1 /\ v' = VerletV(Pre, a0, AccAt(r1))]_vars

\* the energy was computed after a step, with moving bodies, and a later step
\* has completed
C11_Witness ==
    /\ prog = "main"
    /\ diag.k >= 1 /\ steps > diag.k
    /\ diag.e.K # 0 /\ diag.e.U # 0

\* the pair term of the function that was called
FieldPairAcc(ri, rj, mj) ==
    IF pc = "acc_phys" THEN phys_PairAcc(ri, rj, mj) ELSE PairAcc(ri, rj, mj)

\* m_i times the contribution of j to i, plus m_j times that of i to j
ThirdLawDefect(i, j) ==
    m[i] * FieldPairAcc(r[i], r[j], m[j]) + m[j] * FieldPairAcc(r[j], r[i], m[i])

\* the function that was called, on the same positions and the masses mm
FieldAccFor(mm) == IF pc = "acc_phys" THEN phys_compute_accelerations(r, mm)
                   ELSE compute_accelerations(r, mm)

\* the acceleration computed for body i is the same whatever the mass of i
OwnMassIgnored ==
    \A i \in Bodies : \A mi \in MassGrid : FieldAccFor([m EXCEPT ![i] = mi])[i] = accs[i]

\* C12 (as claimed): for distinct bodies i and j, m_i times the contribution of
\* j to i is the exact negative of m_j times the contribution of i to j.
C12_ThirdLawExact ==
    pc \in {"acc_phys", "acc"} =>
        \A i, j \in Bodies : i # j => ThirdLawDefect(i, j) = 0

\* C12 (amended): for distinct bodies i and j with finite contributions, the two
\* point in opposite directions and m_i times the one is the negative of m_j
\* times the other up to the rounding of each contribution (less than one unit
\* of acceleration times the larger mass); and the acceleration computed for a
\* body does not depend on that body's own mass.
C12_ThirdLawRounded ==
    pc \in {"acc_phys", "acc"} =>
        /\ \A i, j \in Bodies :
              (/\ i # j
               /\ IsFinite(FieldPairAcc(r[i], r[j], m[j]))
               /\ IsFinite(FieldPairAcc(r[j], r[i], m[i]))) =>
                  /\ Sign(FieldPairAcc(r[i], r[j], m[j])) = -Sign(FieldPairAcc(r[j], r[i], m[i]))
                     \/ FieldPairAcc(r[i], r[j], m[j]) = 0 \/ FieldPairAcc(r[j], r[i], m[i]) = 0
                  /\ ThirdLawDefect(i, j) < Max(m[i], m[j])
                  /\ -ThirdLawDefect(i, j) < Max(m[i], m[j])
        /\ OwnMassIgnored

\* the accelerations of bodies of different masses at different places were
\* computed, and they are not zero
C12_Witness ==
    /\ pc \in {"acc_phys", "acc"}
    /\ m[1] # m[2] /\ r[1] # r[2]
    /\ accs[1] # 0 /\ accs[2] # 0

\* C13: two reads of the bodies with no integration step between them (by the
\* energy diagnostics, the renderer, or kept in the trail) give the same
\* positions and velocities, and every value the renderer keeps still shows the
\* positions of the time it was read, whatever steps have run since.
C13_SnapshotIdempotent ==
    /\ (diag.k >= 0 /\ diag.k = drawn.k) => diag.r = drawn.r
    /\ \A a \in DOMAIN trail :
          /\ trail[a].k = drawn.k => Shown(trail[a]) = drawn.r
          /\ trail[a].k = diag.k => Shown(trail[a]) = diag.r
          /\ \A b \in DOMAIN trail : trail[a].k = trail[b].k => Shown(trail[a]) = Shown(trail[b])
          /\ Shown(trail[a]) = hist[trail[a].k + 1].r
    /\ diag.k >= 0 => (diag.r = hist[diag.k + 1].r /\ diag.v = hist[diag.k + 1].v)

\* the renderer keeps positions of an earlier frame, steps have moved the bodies
\* since, and the diagnostics and the renderer have both read the new state
C13_Witness ==
    /\ prog = "main" /\ pc = "idle"
    /\ Len(trail) >= 2
    /\ trail[1].k < trail[2].k /\ trail[1].r # trail[2].r
    /\ diag.k = drawn.k /\ drawn.k = trail[2].k

\* the iterate of the running solve is an exact root of Kepler's equation
AtRoot == ~kep.nan /\ kepler_eq(kep.E, kep.e, kep.M) = 0

\* C15 (as claimed): for 0 <= e < 1 the solve makes at most 32 Newton
\* iterations, and makes no further iteration once the residual is below the
\* tolerance (here: once the iterate is an exact root).
C15_StopsAtConvergence ==
    [][(prog = "kepler" /\ kep.pc = "newton" /\ kep.e >= 0 /\ kep.e < KS) =>
          /\ kep'.iter <= 32
          /\ AtRoot => kep'.iter = kep.iter]_vars

\* the loops of the energy functions visit every unordered pair of distinct
\* bodies once, and no body with itself
PairsOnce ==
    LET ps == energy_pairs(1, 2)
    IN  /\ \A k \in DOMAIN ps : ps[k][1] # ps[k][2]
        /\ \A i, j \in Bodies : i < j =>
              Cardinality({k \in DOMAIN ps : ps[k] = <<i, j>> \/ ps[k] = <<j, i>>}) = 1

\* minus the sum of G m_i m_j / sqrt(d^2 + eps^2) over the pairs of P, with the
\* softening length eps of compute_accelerations
RECURSIVE SoftenedPotential(_)
SoftenedPotential(P) ==
    IF P = {} THEN 0
    ELSE LET p == CHOOSE q \in P : \A q2 \in P : q[1] < q2[1] \/ (q[1] = q2[1] /\ q[2] <= q2[2])
             d == FSub(r[p[2]], r[p[1]])
             dist == FSqrt(FAdd(FMul(d, d), SOFTENING * SOFTENING))
         IN  FSub(SoftenedPotential(P \ {p}), FDiv(G * m[p[1]] * m[p[2]], dist))

\* C16 (as claimed): the energy functions count each unordered pair of distinct
\* bodies once, and the potential they return uses for each pair the distance
\* softened with the softening length of the acceleration computation.
C16_EnergyPairsSoftened ==
    pc \in {"energy_phys", "energy"} =>
        /\ PairsOnce
        /\ diag.e.U = SoftenedPotential({p \in Bodies \X Bodies : p[1] < p[2]})

\* the numbers the driver keeps besides the bodies' state: main.py SimState
\* (timescale, dt, focus_idx); solar_system.py's globals (time_scale, dt,
\* focus_idx, nsteps). Neither script has a field of elapsed simulated time.
DriverNumbers ==
    IF prog = "main"
    THEN [timescale |-> timescale, dt |-> sim_dt, focus_idx |-> focus_idx]
    ELSE [time_scale |-> time_scale, dt |-> sim_dt, focus_idx |-> focus_idx, nsteps |-> nsteps]

\* C17 (as claimed): the program keeps a simulation clock that every completed
\* integration step advances by exactly dt: one of the numbers the driver keeps
\* is greater by dt after the step than before it.
C17_StepAdvancesClock ==
    [][steps' = steps + 1 =>
          \E f \in DOMAIN DriverNumbers : DriverNumbers'[f] = DriverNumbers[f] + dt]_vars

\* a UI event has happened: the pause flag, the time scale or the focus changed
UIEvent ==
    \/ paused' # paused \/ running' # running
    \/ timescale' # timescale \/ time_scale' # time_scale
    \/ focus_idx' # focus_idx

\* C18: the step the integrator is given never changes and is the one the run
\* started with; a UI event (pause, time scale, focus) changes neither the step,
\* nor the bodies, nor anything of a running integration step, nor the steps of
\* the current frame; and every completed step, whatever the time scale and the
\* events before it, is the velocity-Verlet image of the state it started from
\* with that step dt and with accelerations of the one softening length in
\* both evaluations.
C18_StepParametersFixed ==
    [][/\ sim_dt = dt /\ sim_dt' = sim_dt
       /\ UIEvent => UNCHANGED <<physVars, stepVars, nsteps, left, steps, hist>>
       /\ steps' = steps + 1 =>
             LET a0 == AccAt(Pre.r)
                 r1 == VerletR(Pre, a0)
             IN  /\ r' = r1
                 /\ v' = VerletV(Pre, a0, AccAt(r1))]_vars

\* the time scale was changed between two frames and each frame ran a step, on
\* finite values
C18_Witness ==
    /\ frame = 2 /\ steps0 >= 1 /\ steps > steps0
    /\ timescale # 1 \/ time_scale # TsStart
    /\ AllFinite(r) /\ AllFinite(v)

\* velocity-Verlet with two evaluations of the accelerations, as physics.py
\* velocity_verlet_step does it: acc, next_positions, acc_next, next_velocities;
\* with the compute_accelerations of physics.py (phys) or of solar_system.py
TwoEvaluations(s, phys) ==
    LET Acc(rr) == IF phys THEN phys_compute_accelerations(rr, m)
                   ELSE compute_accelerations(rr, m)
        acc     == Acc(s.r)
        nextpos == VerletR(s, acc)
    IN  Snapshot(nextpos, VerletV(s, acc, Acc(nextpos)))

\* between two calls of solar_system.py velocity_verlet_step and at the start of
\* a call, accs is compute_accelerations(bodies) at the current positions
AccsFresh ==
    (pc = "loop" \/ (pc = "vv_pos" /\ idx = 1)) => accs = compute_accelerations(r, m)

\* C19 (as claimed): in solar_system.py the carried accs is never stale, and
\* every step reaches the positions and velocities that physics.py
\* velocity_verlet_step, with its two calls of physics.py
\* compute_accelerations, reaches from the same state.
C19_SameAsPhysicsVariant ==
    prog = "vpython" =>
        /\ AccsFresh
        /\ \A k \in 2..Len(hist) :
              hist[k] = TwoEvaluations(hist[k - 1], TRUE)

\* C19 (amended): in solar_system.py the carried accs is never stale, and every
\* step reaches the positions and velocities that a velocity-Verlet step with
\* two evaluations of solar_system.py's own compute_accelerations reaches from
\* the same state.
C19_OneEvaluationSuffices ==
    prog = "vpython" =>
        /\ AccsFresh
        /\ \A k \in 2..Len(hist) :
              hist[k] = TwoEvaluations(hist[k - 1], FALSE)

\* two steps have completed around a focus change, on finite values, and the
\* accelerations at the start of the two steps differ
C19_Witness ==
    /\ prog = "vpython" /\ pc = "loop"
    /\ steps = 2 /\ focus_idx # 0
    /\ AllFinite(r) /\ AllFinite(v)
    /\ compute_accelerations(hist[1].r, m) # compute_accelerations(hist[2].r, m)

\* the slots the jobs before the k-th (in the order of processing) were given
TakenBefore(k) == {job.sched[x] : x \in 1..(k - 1)} \ {0}

\* the latest slot 1..d not in taken, 0 where there is none
LatestFree(d, taken) ==
    IF \E t \in 1..d : t \notin taken
    THEN CHOOSE t \in 1..d : t \notin taken /\ \A u \in (t + 1)..d : u \in taken
    ELSE 0

\* the jobs of S (positions in the input) can be placed in distinct slots, each
\* at or before its deadline
Feasible(S) ==
    \A t \in 1..MaxDeadline : Cardinality({k \in S : job.deadline[k] <= t}) <= t

RECURSIVE ProfitOf(_)
ProfitOf(S) ==
    IF S = {} THEN 0
    ELSE LET k == CHOOSE x \in S : TRUE IN job.profit[k] + ProfitOf(S \ {k})

\* the largest total profit of a feasible schedule
MaxProfit ==
    LET totals == {ProfitOf(S) : S \in {T \in SUBSET (1..Len(job.deadline)) : Feasible(T)}}
    IN  CHOOSE b \in totals : \A t \in totals : t <= b

\* every job processed so far was given the latest slot still free at or before
\* its deadline, or none (0) where no such slot is free; the result, once
\* returned, counts the jobs given a slot and is the largest total profit
GreedySchedule ==
    /\ \A k \in 1..Len(job.sched) :
          job.sched[k] = LatestFree(job.jobs[k][1], TakenBefore(k))
    /\ job.pc = "done" =>
          /\ job.out[1] = Cardinality({k \in 1..Len(job.sched) : job.sched[k] > 0})
          /\ job.out[2] = MaxProfit

\* C20 (as claimed): for every list of jobs with deadlines >= 1, jobSequencing
\* returns [count, total_profit]: the accepted jobs take pairwise distinct slots
\* 1..deadline, each the latest slot still free, slot 0 is never taken, count is
\* the number of accepted jobs and total_profit is the maximum over all
\* feasible schedules.
C20_GreedyOptimal ==
    prog = "jobs" => (job.pc # "raised" /\ GreedySchedule)

\* C20 (amended): the same for every non-empty list of jobs with deadlines >= 1
\* and profits >= 0.
C20_GreedyOptimalNonNegative ==
    (/\ prog = "jobs"
     /\ Len(job.deadline) >= 1
     /\ \A k \in 1..Len(job.profit) : job.profit[k] >= 0) =>
        (job.pc # "raised" /\ GreedySchedule)

\* a call has returned that rejected a job, gave a job a slot before its
\* deadline, and accepted a job that came later in the input than a rejected one
C20_Witness ==
    /\ prog = "jobs" /\ job.pc = "done"
    /\ \A k \in 1..Len(job.profit) : job.profit[k] >= 0
    /\ \E k \in 1..Len(job.sched) : job.sched[k] = 0
    /\ \E k \in 1..Len(job.sched) : job.sched[k] > 0 /\ job.sched[k] < job.jobs[k][1]
    /\ job.out[2] > 0
    /\ job.jobs # [k \in 1..Len(job.deadline) |-> <<job.deadline[k], job.profit[k]>>]

\* C14: after one orbital period of the Sun-Earth-like system (e = 0.0167,
\* a = 1 AU, softening 1e7 m, dt = 86400 s) the total energy differs from the
\* initial one by less than a thousandth of its magnitude.
C14_EnergyDriftBounded ==
    (prog = "orbit" /\ orb.k = OrbitSteps) =>
        LET E0 == orb_energy(OrbitStart)
            E  == orb_energy(orb)
        IN  /\ E - E0 < (-E0) \div 1000
            /\ E0 - E < (-E0) \div 1000

\* the period is over: the planet has gone round the Sun (it was on the far
\* side in between and is back near perihelion), and the energy is not the
\* initial one to the last place
C14_Witness ==
    /\ prog = "orbit" /\ orb.k = OrbitSteps
    /\ orb.r[2][1] - orb.r[1][1] > XF - XF \div 10
    /\ orb_energy(orb) # orb_energy(OrbitStart)

\* the fewest single-digit rotations on a circular 0-9 dial that turn the code
\* of digits rs into that of digits ds: per position min(|r - d|, 10 - |r - d|)
RECURSIVE MinRotations(_, _)
MinRotations(rs, ds) ==
    IF rs = << >> THEN 0
    ELSE LET a == IF Head(rs) >= Head(ds) THEN Head(rs) - Head(ds)
                  ELSE Head(ds) - Head(rs)
         IN  Min(a, 10 - a) + MinRotations(Tail(rs), Tail(ds))

\* C21 (as claimed): for two lock codes of the same number of digits the count
\* the script prints is the minimum number of single-digit rotations, the sum
\* over the positions of min(|r - d|, 10 - |r - d|), and the loop has made one
\* pass for every digit position of the codes.
C21_CountIsMinRotations ==
    (prog = "lock" /\ lock.pc = "done") =>
        /\ lock.out = MinRotations(Digits(lock.R0), Digits(lock.D0))
        /\ lock.passes = Len(Digits(lock.R0))

\* the letters of s at the positions T from the k-th on, in the order of s
RECURSIVE Pick(_, _, _)
Pick(s, T, k) ==
    IF k > Len(s) THEN << >>
    ELSE (IF k \in T THEN <<s[k]>> ELSE << >>) \o Pick(s, T, k + 1)

\* the subsequences of s that hold every distinct letter of s exactly once
OnceEach(s) ==
    LET letters == {s[k] : k \in 1..Len(s)}
    IN  {Pick(s, T, 1) : T \in {U \in SUBSET (1..Len(s)) :
                                   /\ Cardinality(U) = Cardinality(letters)
                                   /\ {s[k] : k \in U} = letters}}

\* a is b or comes before b in lexicographic order, for a and b of one length
LexLeq(a, b) ==
    \/ a = b
    \/ \E k \in 1..Len(a) : a[k] < b[k] /\ \A j \in 1..(k - 1) : a[j] = b[j]

\* C22: after each character is processed the stack holds no letter twice and
\* seen is the set of the letters on the stack; the result is a subsequence of
\* the input that holds every distinct letter of it exactly once, and no other
\* such subsequence comes before it in lexicographic order.
C22_SmallestSubsequence ==
    prog = "dedup" =>
        /\ \A j, k \in 1..Len(dedup.stack) : j # k => dedup.stack[j] # dedup.stack[k]
        /\ dedup.seen = {dedup.stack[k] : k \in 1..Len(dedup.stack)}
        /\ dedup.pc = "done" =>
              /\ dedup.result \in OnceEach(dedup.s)
              /\ \A t \in OnceEach(dedup.s) : LexLeq(dedup.result, t)

\* the script has ended on a string in which a letter was skipped as seen, a
\* letter was popped for a smaller one, and a larger letter was kept before a
\* smaller one because it does not occur again
C22_Witness ==
    /\ prog = "dedup" /\ dedup.pc = "done"
    /\ Len(dedup.result) < Len(dedup.s)
    /\ dedup.result # Pick(dedup.s, {k \in 1..Len(dedup.s) :
                                       \A j \in 1..(k - 1) : dedup.s[j] # dedup.s[k]}, 1)
    /\ \E k \in 1..(Len(dedup.result) - 1) : dedup.result[k] > dedup.result[k + 1]

====
